---- MODULE Spec2Model ----
(***************************************************************************)
(* Model of nodes/Firecrawl/FirecrawlTool.node.ts: the Firecrawl tool node *)
(* for n8n AI agents.  supplyData builds one DynamicStructuredTool for the *)
(* configured operation; the tool's handler records its input, performs    *)
(* one authenticated POST through makeFirecrawlRequest and records and     *)
(* returns the outcome.  Several handler invocations may be in flight at   *)
(* once: each one suspends at its two awaits (getCredentials, httpRequest) *)
(* and the host resumes them in any order.                                 *)
(***************************************************************************)
EXTENDS Integers, Sequences, FiniteSets, Bags, TLC

(***************************************************************************)
(* Bounds of the model.                                                    *)
(***************************************************************************)
\* number of handler invocations one behaviour may start
MaxInvocations == 2

(***************************************************************************)
(* JSON values (IDataObject and its fields).  A value is a record [t, v]:  *)
(* the atoms carry their text, an array carries the sequence of its        *)
(* elements and an object the sequence of its <<key, value>> properties in *)
(* insertion order, which is the order JavaScript enumerates them in.      *)
(***************************************************************************)
JNull == [t |-> "null", v |-> "null"]
JBool(b) == [t |-> "bool", v |-> IF b THEN "true" ELSE "false"]
JNum(digits) == [t |-> "num", v |-> digits]
JStr(s) == [t |-> "str", v |-> s]
JArr(elems) == [t |-> "arr", v |-> elems]
JObj(props) == [t |-> "obj", v |-> props]

\* one character of a string
Char(s, i) == SubSeq(s, i, i)

\* QuoteJSONString: the characters JSON.stringify escapes inside a string
EscapeChar(c) ==
  IF c = "\"" THEN "\\\""
  ELSE IF c = "\\" THEN "\\\\"
  ELSE IF c = "\n" THEN "\\n"
  ELSE c

RECURSIVE EscapeFrom(_, _)
EscapeFrom(s, i) ==
  IF i > Len(s) THEN "" ELSE EscapeChar(Char(s, i)) \o EscapeFrom(s, i + 1)

Quote(s) == "\"" \o EscapeFrom(s, 1) \o "\""

\* JSON.stringify(value, null, gap): gap = "" gives the compact form of
\* JSON.stringify(value), gap = "  " the 2-space-indented form.
RECURSIVE Serialize(_, _, _)
RECURSIVE SerializeProps(_, _, _, _)
RECURSIVE SerializeElems(_, _, _, _)
SerializeProps(props, k, gap, indent) ==
  IF k > Len(props) THEN ""
  ELSE (IF k > 1 THEN (IF gap = "" THEN "," ELSE ",\n" \o indent) ELSE "")
       \o Quote(props[k][1]) \o (IF gap = "" THEN ":" ELSE ": ")
       \o Serialize(props[k][2], gap, indent)
       \o SerializeProps(props, k + 1, gap, indent)

SerializeElems(elems, k, gap, indent) ==
  IF k > Len(elems) THEN ""
  ELSE (IF k > 1 THEN (IF gap = "" THEN "," ELSE ",\n" \o indent) ELSE "")
       \o Serialize(elems[k], gap, indent)
       \o SerializeElems(elems, k + 1, gap, indent)

Serialize(val, gap, indent) ==
  CASE val.t = "str" -> Quote(val.v)
    [] val.t \in {"null", "bool", "num"} -> val.v
    [] val.t = "obj" ->
         IF Len(val.v) = 0 THEN "{}"
         ELSE IF gap = "" THEN "{" \o SerializeProps(val.v, 1, gap, indent) \o "}"
         ELSE "{\n" \o indent \o gap
              \o SerializeProps(val.v, 1, gap, indent \o gap)
              \o "\n" \o indent \o "}"
    [] val.t = "arr" ->
         IF Len(val.v) = 0 THEN "[]"
         ELSE IF gap = "" THEN "[" \o SerializeElems(val.v, 1, gap, indent) \o "]"
         ELSE "[\n" \o indent \o gap
              \o SerializeElems(val.v, 1, gap, indent \o gap)
              \o "\n" \o indent \o "]"

\* JSON.stringify(input)
StringifyCompact(val) == Serialize(val, "", "")
\* JSON.stringify(response, null, 2)
StringifyIndent2(val) == Serialize(val, "  ", "")

\* value of property `key` of an object, or NoValue
NoValue == [t |-> "undefined", v |-> "undefined"]
RECURSIVE GetFrom(_, _, _)
GetFrom(props, key, k) ==
  IF k > Len(props) THEN NoValue
  ELSE IF props[k][1] = key THEN props[k][2]
  ELSE GetFrom(props, key, k + 1)
Get(obj, key) == GetFrom(obj.v, key, 1)

\* obj[key] = val: an existing property keeps its position and takes the new
\* value, a new property is appended
SetProp(props, key, val) ==
  IF \E k \in 1..Len(props) : props[k][1] = key
  THEN [k \in 1..Len(props) |->
          IF props[k][1] = key THEN <<key, val>> ELSE props[k]]
  ELSE Append(props, <<key, val>>)

\* object spread {...target, ...source}: the properties of source are
\* assigned onto target in order
RECURSIVE SpreadFrom(_, _, _)
SpreadFrom(target, source, k) ==
  IF k > Len(source) THEN target
  ELSE SpreadFrom(SetProp(target, source[k][1], source[k][2]), source, k + 1)
Spread(target, source) == SpreadFrom(target, source, 1)

(***************************************************************************)
(* Program constants and the values the environment can supply.            *)
(***************************************************************************)
DefaultBaseUrl == "https://api.firecrawl.dev/v2"
IntegrationMarker == "n8n-tool"
ToolNamePrefix == "firecrawl_"

\* the cases of the switch in supplyData
Operations == {"scrape", "map", "search", "crawl"}
\* values the toolType parameter may hold ("extract" is none of the cases)
ToolTypes == Operations \cup {"extract"}
\* values the description parameter may hold (its default is the empty string)
CustomDescriptions == {"", " ", "Use this to read the company wiki"}

\* credential records the host's store may hold under 'firecrawlApi'
CredentialRecords ==
  { JObj(<< <<"apiKey", JStr("fc-key")>> >>),
    JObj(<< <<"apiKey", JStr("fc-key")>>, <<"baseUrl", JStr("")>> >>),
    JObj(<< <<"apiKey", JStr("fc-key")>>,
            <<"baseUrl", JStr("http://localhost:3002/v2")>> >>) }

\* inputs an agent may call the handler with (IDataObject)
Inputs ==
  { JObj(<< <<"url", JStr("https://example.com/blog")>>, <<"limit", JNum("20")>> >>),
    JObj(<< <<"url", JStr("https://example.com")>>,
            <<"integration", JStr("custom")>> >>) }

\* parsed JSON bodies the remote API may answer with
Responses ==
  { JObj(<< <<"id", JStr("job-123")>> >>),
    JObj(<< <<"links", JArr(<< JStr("https://example.com/a") >>)>> >>),
    JObj(<< <<"success", JBool(TRUE)>>,
            <<"data", JObj(<< <<"markdown", JStr("# Hi \"you\"\n")>>,
                              <<"links", JArr(<< >>)>> >>)>> >>) }

\* A thrown value: its class, its message property, its String() conversion
\* and its identity.  kind "value" is a thrown value that is no instance of
\* Error (here a string, which has no message property).
NoError == [kind |-> "none", message |-> "", text |-> "", id |-> <<"none", 0>>]

\* rejections of context.getCredentials for invocation i
CredentialErrors(i) ==
  { [kind |-> "NodeOperationError",
     message |-> "Node does not have any credentials set",
     text |-> "NodeOperationError: Node does not have any credentials set",
     id |-> <<"getCredentials", i>>],
    [kind |-> "Error",
     message |-> "Credentials could not be decrypted",
     text |-> "Error: Credentials could not be decrypted",
     id |-> <<"getCredentials", i>>] }

\* rejections of context.helpers.httpRequest for invocation i
HttpErrors(i) ==
  { [kind |-> "Error",
     message |-> "connect ECONNREFUSED 127.0.0.1:3002",
     text |-> "Error: connect ECONNREFUSED 127.0.0.1:3002",
     id |-> <<"httpRequest", i>>],
    [kind |-> "value",
     message |-> "undefined",
     text |-> "socket hang up",
     id |-> <<"httpRequest", i>>],
    [kind |-> "NodeOperationError",
     message |-> "The connection was aborted",
     text |-> "NodeOperationError: The connection was aborted",
     id |-> <<"httpRequest", i>>] }

(***************************************************************************)
(* State.                                                                  *)
(***************************************************************************)
VARIABLES
  toolType,      \* node parameter 'toolType'
  description,   \* node parameter 'description'
  credentials,   \* the credential record stored under 'firecrawlApi'
  tool,          \* the tool the last successful supplyData returned, or NoTool
  supplyError,   \* the error the last supplyData raised, or NoError
  inv,           \* the handler invocations: position and local variables
  inputLog,      \* records made by addInputData, in order
  outputLog,     \* bag of the records made by addOutputData, keyed by index
  httpLog,       \* bag of the requests handed to helpers.httpRequest
  credReads      \* number of getCredentials calls made

vars == <<toolType, description, credentials, tool, supplyError, inv,
          inputLog, outputLog, httpLog, credReads>>

Invocations == 1..MaxInvocations

NoTool == [name |-> "", description |-> "", func |-> ""]
NoResult == "<none>"

IdleInvocation ==
  [pc |-> "idle", op |-> "", input |-> NoValue, index |-> -1,
   response |-> NoValue, caught |-> NoError, result |-> NoResult,
   raised |-> NoError]

Init ==
  /\ toolType \in ToolTypes
  /\ description \in CustomDescriptions
  /\ credentials \in CredentialRecords
  /\ tool = NoTool
  /\ supplyError = NoError
  /\ inv = [i \in Invocations |-> IdleInvocation]
  /\ inputLog = << >>
  /\ outputLog = EmptyBag
  /\ httpLog = EmptyBag
  /\ credReads = 0

(***************************************************************************)
(* supplyData                                                              *)
(***************************************************************************)
\* the built-in description of each case (its first line; the rest of each
\* template is static text)
BuiltinDescription(operation) ==
  CASE operation = "scrape" ->
         "Scrape content from a single URL with advanced options. "
    [] operation = "map" ->
         "Map a website to discover all indexed URLs on the site."
    [] operation = "search" ->
         "Search the web and optionally extract content from search results."
    [] operation = "crawl" ->
         "Starts a crawl job on a website and extracts content from all pages."

\* variant: the operands of || swapped, the template always wins
ToolDescriptionTemplateFirst(operation, customDescription) ==
  IF BuiltinDescription(operation) # "" THEN BuiltinDescription(operation)
  ELSE customDescription

\* customDescription || `...`: the empty string is the falsy string
ToolDescription(operation, customDescription) ==
  IF customDescription # "" THEN customDescription
  ELSE BuiltinDescription(operation)

\* const toolName = `firecrawl_${operation}`
ToolName(operation) == ToolNamePrefix \o operation

\* variant: a case copied from the first one keeps its handler
HandlerOpCopied(operation) == "scrape"

\* the operation each case binds its handler to: createToolHandler('scrape'),
\* createToolHandler('map'), createToolHandler('search'), createToolHandler('crawl')
HandlerOp(operation) ==
  CASE operation = "scrape" -> "scrape"
    [] operation = "map" -> "map"
    [] operation = "search" -> "search"
    [] operation = "crawl" -> "crawl"

\* whether the switch has a case for the operation (else the default case)
HasCase(operation) == operation \in Operations

\* variant: the message of the default case leaves the value out
UnknownOperationErrorUnnamed(operation) ==
  [kind |-> "NodeOperationError",
   message |-> "Unknown operation",
   text |-> "NodeOperationError: Unknown operation",
   id |-> <<"supplyData", 0>>]

UnknownOperationError(operation) ==
  [kind |-> "NodeOperationError",
   message |-> "Unknown operation: " \o operation,
   text |-> "NodeOperationError: Unknown operation: " \o operation,
   id |-> <<"supplyData", 0>>]

SupplyData ==
  /\ IF HasCase(toolType)
     THEN /\ tool' = [name |-> ToolName(toolType),
                      description |-> ToolDescription(toolType, description),
                      func |-> HandlerOp(toolType)]
          /\ supplyError' = NoError
     ELSE /\ supplyError' = UnknownOperationError(toolType)
          /\ UNCHANGED tool
  /\ UNCHANGED <<toolType, description, credentials, inv, inputLog,
                 outputLog, httpLog, credReads>>

(***************************************************************************)
(* makeFirecrawlRequest                                                    *)
(***************************************************************************)
\* JavaScript truthiness of a property value: undefined, null and the empty
\* string are falsy
Truthy(val) == val # NoValue /\ val # JNull /\ val # JStr("")

\* variant: credentials.baseUrl ?? '...', which keeps an empty base URL
BaseUrlNullish(creds) ==
  IF Get(creds, "baseUrl") \notin {NoValue, JNull} THEN Get(creds, "baseUrl").v
  ELSE DefaultBaseUrl

\* (credentials.baseUrl as string) || 'https://api.firecrawl.dev/v2'
BaseUrl(creds) ==
  IF Truthy(Get(creds, "baseUrl")) THEN Get(creds, "baseUrl").v
  ELSE DefaultBaseUrl

\* url: `${baseUrl}/${operation}`
RequestUrl(baseUrl, operation) == baseUrl \o "/" \o operation

\* body: { integration: 'n8n-tool', ...body }
RequestBody(body) ==
  JObj(Spread(<< <<"integration", JStr(IntegrationMarker)>> >>, body.v))

\* the options object handed to context.helpers.httpRequest by invocation i
HttpRequestOptions(i, creds, operation, body) ==
  [by |-> i,
   method |-> "POST",
   url |-> RequestUrl(BaseUrl(creds), operation),
   authorization |-> "Bearer " \o Get(creds, "apiKey").v,
   contentType |-> "application/json",
   accept |-> "application/json",
   body |-> RequestBody(body),
   json |-> TRUE]

(***************************************************************************)
(* createToolHandler: the handler of the tool.  Its local variables (op,   *)
(* input, index, response, error) live in inv[i].                          *)
(***************************************************************************)
\* the index addInputData returns: the run index of the new input record
AddInputDataIndex == Len(inputLog)

\* variant: the index is kept in one variable shared by all invocations, so
\* it is the one the latest addInputData returned
OutputIndexLatest(i) == Len(inputLog) - 1

\* the index the handler of invocation i hands to addOutputData
OutputIndex(i) == inv[i].index

\* const outputData = { response }
OutputData(response) == JObj(<< <<"response", response>> >>)

\* variant: the recorded wrapper is what gets serialized
ReturnValueOfOutputData(response) ==
  StringifyIndent2(JObj(<< <<"response", response>> >>))

\* return JSON.stringify(response, null, 2)
ReturnValue(response) == StringifyIndent2(response)

\* variant: the catch tests for another error class
IsNodeApiError(error) == error.kind = "NodeApiError"

\* error instanceof NodeOperationError
IsNodeOperationError(error) == error.kind = "NodeOperationError"

\* variant: error.message whatever was thrown
ErrorMessageProperty(error) == error.message

\* error instanceof Error ? error.message : String(error)
ErrorMessage(error) ==
  IF error.kind \in {"Error", "NodeOperationError"} THEN error.message
  ELSE error.text

\* `Firecrawl API error for ${op}: ${errorMessage}. Input: ${JSON.stringify(input)}`
NodeErrorMessage(op, errorMessage, input) ==
  "Firecrawl API error for " \o op \o ": " \o errorMessage
    \o ". Input: " \o StringifyCompact(input)

\* new NodeOperationError(node, message), created by invocation i
NewNodeError(i, op, error, input) ==
  [kind |-> "NodeOperationError",
   message |-> NodeErrorMessage(op, ErrorMessage(error), input),
   text |-> "NodeOperationError: "
              \o NodeErrorMessage(op, ErrorMessage(error), input),
   id |-> <<"handler", i>>]

\* the handler is called: addInputData, then makeFirecrawlRequest runs up to
\* its first await (getCredentials)
Invoke(i, input) ==
  /\ tool # NoTool
  /\ inv[i].pc = "idle"
  /\ \A j \in Invocations : j < i => inv[j].pc # "idle"
  /\ inputLog' = Append(inputLog, [by |-> i, json |-> input])
  /\ credReads' = credReads + 1
  /\ inv' = [inv EXCEPT ![i] = [@ EXCEPT !.pc = "awaitCredentials",
                                         !.op = tool.func,
                                         !.input = input,
                                         !.index = AddInputDataIndex]]
  /\ UNCHANGED <<toolType, description, credentials, tool, supplyError,
                 outputLog, httpLog>>

\* getCredentials resolves: the request is built and handed to httpRequest
CredentialsResolve(i) ==
  /\ inv[i].pc = "awaitCredentials"
  /\ httpLog' = httpLog (+) SetToBag(
                  {HttpRequestOptions(i, credentials, inv[i].op, inv[i].input)})
  /\ inv' = [inv EXCEPT ![i].pc = "awaitHttp"]
  /\ UNCHANGED <<toolType, description, credentials, tool, supplyError,
                 inputLog, outputLog, credReads>>

\* the catch block of the handler, entered by invocation i with `error`
Catch(i, error) ==
  IF IsNodeOperationError(error)
  THEN /\ inv' = [inv EXCEPT ![i] = [@ EXCEPT !.pc = "raised",
                                              !.caught = error,
                                              !.raised = error]]
       /\ UNCHANGED outputLog
  ELSE /\ outputLog' = outputLog (+) SetToBag(
                         {[by |-> i, index |-> OutputIndex(i),
                           data |-> NewNodeError(i, inv[i].op, error, inv[i].input)]})
       /\ inv' = [inv EXCEPT ![i] = [@ EXCEPT
                    !.pc = "raised",
                    !.caught = error,
                    !.raised = NewNodeError(i, inv[i].op, error, inv[i].input)]]

\* getCredentials rejects: no request is made, the handler's catch runs
CredentialsReject(i, error) ==
  /\ inv[i].pc = "awaitCredentials"
  /\ Catch(i, error)
  /\ UNCHANGED <<toolType, description, credentials, tool, supplyError,
                 inputLog, httpLog, credReads>>

\* httpRequest resolves with the parsed body: record { response }, return
HttpResolve(i, response) ==
  /\ inv[i].pc = "awaitHttp"
  /\ outputLog' = outputLog (+) SetToBag(
                    {[by |-> i, index |-> OutputIndex(i),
                      data |-> OutputData(response)]})
  /\ inv' = [inv EXCEPT ![i] = [@ EXCEPT !.pc = "returned",
                                         !.response = response,
                                         !.result = ReturnValue(response)]]
  /\ UNCHANGED <<toolType, description, credentials, tool, supplyError,
                 inputLog, httpLog, credReads>>

\* httpRequest rejects: the handler's catch runs
HttpReject(i, error) ==
  /\ inv[i].pc = "awaitHttp"
  /\ Catch(i, error)
  /\ UNCHANGED <<toolType, description, credentials, tool, supplyError,
                 inputLog, httpLog, credReads>>

Next ==
  \/ SupplyData
  \/ \E i \in Invocations, input \in Inputs : Invoke(i, input)
  \/ \E i \in Invocations : CredentialsResolve(i)
  \/ \E i \in Invocations : \E error \in CredentialErrors(i) :
       CredentialsReject(i, error)
  \/ \E i \in Invocations, response \in Responses : HttpResolve(i, response)
  \/ \E i \in Invocations : \E error \in HttpErrors(i) : HttpReject(i, error)

Spec == Init /\ [][Next]_vars

(***************************************************************************)
(* What the properties below are stated with: JSON.parse, deep equality,   *)
(* substring search and counts over the logs.                              *)
(***************************************************************************)
CharAt(s, i) == IF i >= 1 /\ i <= Len(s) THEN SubSeq(s, i, i) ELSE ""

RECURSIVE SkipWs(_, _)
SkipWs(s, i) ==
  IF CharAt(s, i) \in {" ", "\n"} THEN SkipWs(s, i + 1) ELSE i

\* the characters of a JSON string literal from position i (after the opening
\* quote) up to the closing quote, escapes undone
RECURSIVE ScanString(_, _, _)
ScanString(s, i, acc) ==
  LET c == CharAt(s, i) IN
  IF c = "\"" \/ c = "" THEN [v |-> acc, pos |-> i + 1]
  ELSE IF c = "\\"
       THEN ScanString(s, i + 2,
              acc \o (IF CharAt(s, i + 1) = "n" THEN "\n" ELSE CharAt(s, i + 1)))
       ELSE ScanString(s, i + 1, acc \o c)

Digits == {"0", "1", "2", "3", "4", "5", "6", "7", "8", "9"}
RECURSIVE ScanNumber(_, _, _)
ScanNumber(s, i, acc) ==
  IF CharAt(s, i) \in Digits THEN ScanNumber(s, i + 1, acc \o CharAt(s, i))
  ELSE [v |-> acc, pos |-> i]

RECURSIVE ParseValueAt(_, _)
RECURSIVE ParseMembers(_, _, _)
RECURSIVE ParseElements(_, _, _)
ParseMembers(s, i, acc) ==
  LET c == CharAt(s, i) IN
  IF c = "}" \/ c = "" THEN [val |-> JObj(acc), pos |-> i + 1]
  ELSE IF c = "," THEN ParseMembers(s, SkipWs(s, i + 1), acc)
  ELSE LET key == ScanString(s, i + 1, "")
           colon == SkipWs(s, key.pos)
           member == ParseValueAt(s, colon + 1)
       IN ParseMembers(s, SkipWs(s, member.pos), SetProp(acc, key.v, member.val))

ParseElements(s, i, acc) ==
  LET c == CharAt(s, i) IN
  IF c = "]" \/ c = "" THEN [val |-> JArr(acc), pos |-> i + 1]
  ELSE IF c = "," THEN ParseElements(s, SkipWs(s, i + 1), acc)
  ELSE LET element == ParseValueAt(s, i)
       IN ParseElements(s, SkipWs(s, element.pos), Append(acc, element.val))

ParseValueAt(s, i) ==
  LET j == SkipWs(s, i)
      c == CharAt(s, j)
  IN CASE c = "{" -> ParseMembers(s, SkipWs(s, j + 1), << >>)
       [] c = "[" -> ParseElements(s, SkipWs(s, j + 1), << >>)
       [] c = "\"" -> LET r == ScanString(s, j + 1, "")
                      IN [val |-> JStr(r.v), pos |-> r.pos]
       [] c = "t" -> [val |-> JBool(TRUE), pos |-> j + 4]
       [] c = "f" -> [val |-> JBool(FALSE), pos |-> j + 5]
       [] c = "n" -> [val |-> JNull, pos |-> j + 4]
       [] c \in Digits -> LET r == ScanNumber(s, j, "")
                          IN [val |-> JNum(r.v), pos |-> r.pos]
       [] OTHER -> [val |-> NoValue, pos |-> j + 1]

\* JSON.parse(text)
JSONParse(text) == ParseValueAt(text, 1).val

\* deep equality of two JSON values: objects compare by property, whatever
\* the order of their keys
RECURSIVE DeepEqual(_, _)
DeepEqual(a, b) ==
  /\ a.t = b.t
  /\ CASE a.t = "obj" ->
            /\ {a.v[k][1] : k \in 1..Len(a.v)} = {b.v[k][1] : k \in 1..Len(b.v)}
            /\ Len(a.v) = Len(b.v)
            /\ \A k \in 1..Len(a.v) : DeepEqual(a.v[k][2], Get(b, a.v[k][1]))
       [] a.t = "arr" ->
            /\ Len(a.v) = Len(b.v)
            /\ \A k \in 1..Len(a.v) : DeepEqual(a.v[k], b.v[k])
       [] OTHER -> a.v = b.v

\* whether string sub occurs in string s
Contains(s, sub) ==
  \E k \in 1..(Len(s) - Len(sub) + 1) : SubSeq(s, k, k + Len(sub) - 1) = sub

StartsWith(s, prefix) ==
  Len(s) >= Len(prefix) /\ SubSeq(s, 1, Len(prefix)) = prefix

EndsWith(s, suffix) ==
  Len(s) >= Len(suffix) /\ SubSeq(s, Len(s) - Len(suffix) + 1, Len(s)) = suffix

\* the records of a log made by invocation i, and their number
RecordsBy(log, i) == {r \in BagToSet(log) : r.by = i}
CountBy(log, i) == BagCardinality([r \in RecordsBy(log, i) |-> log[r]])
InputRecordsBy(i) == {k \in 1..Len(inputLog) : inputLog[k].by = i}

Started(i) == inv[i].pc # "idle"
InFlight(i) == inv[i].pc \in {"awaitCredentials", "awaitHttp"}
Finished(i) == inv[i].pc \in {"returned", "raised"}

\* the text JSON.stringify gives for each input of Inputs
InputJson(input) ==
  IF Get(input, "limit") # NoValue
  THEN "{\"url\":\"https://example.com/blog\",\"limit\":20}"
  ELSE "{\"url\":\"https://example.com\",\"integration\":\"custom\"}"

\* the base URL the interface documents for a credential record
DocumentedBaseUrl(creds) ==
  IF \E k \in 1..Len(creds.v) :
       creds.v[k][1] = "baseUrl" /\ creds.v[k][2].t = "str" /\ creds.v[k][2].v # ""
  THEN Get(creds, "baseUrl").v
  ELSE "https://api.firecrawl.dev/v2"

(***************************************************************************)
(* Properties.                                                             *)
(***************************************************************************)
\* the run index addInputData returned to invocation i: its record's position
OwnIndex(i) == (CHOOSE k \in InputRecordsBy(i) : TRUE) - 1

\* C1: every invocation makes exactly one input record, made before its HTTP
\* call is dispatched, and, however it ends (return or raise, whatever the
\* failure), exactly one outcome record under the index its input record got;
\* no outcome record exists while the invocation is still in flight.
C1_OneInputOneOutcomeRecord ==
  \A i \in Invocations :
    /\ Started(i) => Cardinality(InputRecordsBy(i)) = 1
    /\ CountBy(httpLog, i) > 0 => Cardinality(InputRecordsBy(i)) = 1
    /\ ~Finished(i) => CountBy(outputLog, i) = 0
    /\ Finished(i) =>
         /\ CountBy(outputLog, i) = 1
         /\ \A r \in RecordsBy(outputLog, i) : r.index = OwnIndex(i)

\* C2: every request body handed to httpRequest carries integration with the
\* fixed value "n8n-tool", also when the caller's body has its own
\* integration key.
C2_IntegrationMarkerFixed ==
  \A r \in BagToSet(httpLog) : Get(r.body, "integration") = JStr("n8n-tool")

\* C3 as stated: every finished invocation has issued exactly one POST, to
\* {baseUrl}/X for the operation X of the tool's name.
C3_ExactlyOnePost ==
  \A i \in Invocations :
    Finished(i) =>
      /\ CountBy(httpLog, i) = 1
      /\ \A r \in RecordsBy(httpLog, i) :
           /\ r.method = "POST"
           /\ r.url = DocumentedBaseUrl(credentials) \o "/" \o toolType

\* C3 as amended: an invocation issues at most one POST, none before or
\* without the credential lookup succeeding and exactly one once it has; the
\* target is {baseUrl}/X, baseUrl the credential's when present and
\* non-empty and the default otherwise, X the operation of the tool's name.
C3_AtMostOnePost ==
  \A i \in Invocations :
    /\ CountBy(httpLog, i) <= 1
    /\ inv[i].pc \in {"idle", "awaitCredentials"} => CountBy(httpLog, i) = 0
    /\ inv[i].pc \in {"awaitHttp", "returned"} => CountBy(httpLog, i) = 1
    /\ inv[i].pc = "raised" =>
         CountBy(httpLog, i) = IF inv[i].caught.id[1] = "getCredentials" THEN 0 ELSE 1
    /\ \A r \in RecordsBy(httpLog, i) :
         /\ r.method = "POST"
         /\ r.url = DocumentedBaseUrl(credentials) \o "/" \o toolType
         /\ tool.name = "firecrawl_" \o toolType

C3_Witness ==
  \E i, j \in Invocations :
    /\ inv[i].pc = "raised" /\ inv[i].caught.id[1] = "httpRequest"
    /\ CountBy(httpLog, i) = 1
    /\ inv[j].pc = "raised" /\ inv[j].caught.id[1] = "getCredentials"
    /\ Get(credentials, "baseUrl") = JStr("")

\* the message of the failure the handler caught
UnderlyingMessage(error) ==
  IF error.kind = "value" THEN error.text ELSE error.message

\* C4: a caught failure that is no NodeOperationError makes the handler
\* return nothing and raise a NodeOperationError whose message contains the
\* operation, the failure's message and JSON.stringify(input); that very
\* error is what the output channel holds, under the invocation's index, by
\* the time it is raised.
C4_WrappedErrorRecordedAndRaised ==
  \A i \in Invocations :
    (inv[i].pc = "raised" /\ inv[i].caught.kind # "NodeOperationError") =>
      /\ inv[i].result = NoResult
      /\ inv[i].raised.kind = "NodeOperationError"
      /\ inv[i].raised.id # inv[i].caught.id
      /\ Contains(inv[i].raised.message, toolType)
      /\ Contains(inv[i].raised.message, UnderlyingMessage(inv[i].caught))
      /\ Contains(inv[i].raised.message, InputJson(inv[i].input))
      /\ RecordsBy(outputLog, i) =
           {[by |-> i, index |-> OwnIndex(i), data |-> inv[i].raised]}
      /\ CountBy(outputLog, i) = 1

C4_Witness ==
  \E i, j \in Invocations :
    /\ inv[i].pc = "raised" /\ inv[i].caught.kind = "value"
    /\ inv[i].caught.id[1] = "httpRequest"
    /\ inv[j].pc = "raised" /\ inv[j].caught.kind = "Error"
    /\ inv[j].caught.id[1] = "getCredentials"

\* C5: a caught NodeOperationError is raised as it is: the raised error is
\* the caught one (same object, same message, no operation prefix, no input
\* appended) and the handler creates no wrapping error.
C5_NodeOperationErrorPassedThrough ==
  \A i \in Invocations :
    (inv[i].pc = "raised" /\ inv[i].caught.kind = "NodeOperationError") =>
      /\ inv[i].raised = inv[i].caught
      /\ inv[i].raised.id[1] # "handler"
      /\ ~StartsWith(inv[i].raised.message, "Firecrawl API error for")
      /\ ~Contains(inv[i].raised.message, InputJson(inv[i].input))
      /\ CountBy(outputLog, i) = 0
      /\ \A r \in BagToSet(outputLog) :
           "id" \in DOMAIN r.data => r.data.id # <<"handler", i>>

C5_Witness ==
  \E i, j \in Invocations :
    /\ inv[i].pc = "raised" /\ inv[i].caught.kind = "NodeOperationError"
    /\ inv[i].caught.id[1] = "getCredentials"
    /\ inv[j].pc = "raised" /\ inv[j].caught.kind = "NodeOperationError"
    /\ inv[j].caught.id[1] = "httpRequest"

\* C6: on success with response R the output channel holds {response: R}
\* and the handler returns the 2-space-indented JSON text of R itself:
\* parsing it gives a value deep-equal to R, not the wrapper, and R =
\* {"id": "job-123"} gives the text `{\n  "id": "job-123"\n}`.
C6_ReturnsIndentedJsonOfResponse ==
  \A i \in Invocations :
    inv[i].pc = "returned" =>
      /\ inv[i].raised = NoError
      /\ RecordsBy(outputLog, i) =
           {[by |-> i, index |-> OwnIndex(i),
             data |-> JObj(<< <<"response", inv[i].response>> >>)]}
      /\ DeepEqual(JSONParse(inv[i].result), inv[i].response)
      /\ Get(JSONParse(inv[i].result), "response") = NoValue
      /\ inv[i].response # JObj(<< >>) => Contains(inv[i].result, "\n  \"")
      /\ inv[i].response = JObj(<< <<"id", JStr("job-123")>> >>) =>
           inv[i].result = "{\n  \"id\": \"job-123\"\n}"

C6_Witness ==
  \E i, j \in Invocations :
    /\ toolType = "crawl"
    /\ inv[i].pc = "returned"
    /\ inv[i].response = JObj(<< <<"id", JStr("job-123")>> >>)
    /\ inv[i].result = "{\n  \"id\": \"job-123\"\n}"
    /\ inv[j].pc = "returned"
    /\ Get(inv[j].response, "data") # NoValue

\* C7: with a toolType outside the four operations supplyData returns no
\* tool and raises a NodeOperationError naming the value, and nothing is
\* sent, read or recorded; with one of the four it raises nothing, returns
\* one tool, and nothing is sent, read or recorded until a handler runs.
C7_UnknownOperationFailsWithoutCalls ==
  /\ toolType \notin {"scrape", "map", "search", "crawl"} =>
       /\ tool = NoTool
       /\ supplyError # NoError =>
            /\ supplyError.kind = "NodeOperationError"
            /\ Contains(supplyError.message, toolType)
       /\ httpLog = EmptyBag /\ outputLog = EmptyBag
       /\ inputLog = << >> /\ credReads = 0
  /\ toolType \in {"scrape", "map", "search", "crawl"} =>
       /\ supplyError = NoError
       /\ (\A i \in Invocations : ~Started(i)) =>
            /\ httpLog = EmptyBag /\ outputLog = EmptyBag
            /\ inputLog = << >> /\ credReads = 0
  /\ tool = NoTool => \A i \in Invocations : ~Started(i)

C7_Witness ==
  /\ toolType = "extract"
  /\ supplyError.kind = "NodeOperationError"
  /\ supplyError.message = "Unknown operation: extract"
  /\ tool = NoTool

\* C8: with several invocations in flight and completing in any order, each
\* one's request, outcome record and result come from its own input and its
\* own response or failure, its outcome record carries the index of its own
\* input record, and no two invocations share an index.
C8_InvocationsIsolated ==
  \A i \in Invocations :
    /\ \A j \in Invocations :
         (Started(i) /\ Started(j) /\ i # j) => inv[i].index # inv[j].index
    /\ Started(i) =>
         /\ inputLog[inv[i].index + 1].by = i
         /\ inputLog[inv[i].index + 1].json = inv[i].input
    /\ \A r \in RecordsBy(httpLog, i) :
         /\ Get(r.body, "url") = Get(inv[i].input, "url")
         /\ Get(r.body, "limit") = Get(inv[i].input, "limit")
    /\ \A r \in RecordsBy(outputLog, i) :
         /\ inputLog[r.index + 1].by = i
         /\ inv[i].pc = "returned" => Get(r.data, "response") = inv[i].response
         /\ inv[i].pc = "raised" =>
              /\ r.data = inv[i].raised
              /\ r.data.id = <<"handler", i>>
              /\ Contains(r.data.message, InputJson(inv[i].input))
              /\ Contains(r.data.message, UnderlyingMessage(inv[i].caught))
    /\ inv[i].pc = "returned" =>
         DeepEqual(JSONParse(inv[i].result), inv[i].response)
    /\ inv[i].pc = "raised" => inv[i].raised.id[2] = i

\* a later invocation has finished while an earlier one with another input
\* is still waiting for its HTTP response
C8_Witness ==
  \E i, j \in Invocations :
    /\ i < j
    /\ inv[i].pc = "awaitHttp"
    /\ Finished(j)
    /\ CountBy(outputLog, j) = 1
    /\ inv[i].input # inv[j].input

\* C9: the tool's name is "firecrawl_" followed by the operation key, the
\* names of the four operations are pairwise distinct, and the operation in
\* the name is the one the handler sends its requests to.
C9_ToolNameMatchesOperation ==
  tool # NoTool =>
    /\ tool.name = "firecrawl_" \o toolType
    /\ tool.name \in {"firecrawl_scrape", "firecrawl_map",
                      "firecrawl_search", "firecrawl_crawl"}
    /\ \A o \in Operations : o # toolType => ToolName(o) # tool.name
    /\ tool.name = "firecrawl_" \o tool.func
    /\ \A i \in Invocations : Started(i) => tool.name = "firecrawl_" \o inv[i].op
    /\ \A r \in BagToSet(httpLog) :
         \E base \in {"https://api.firecrawl.dev/v2", "http://localhost:3002/v2"} :
           "firecrawl_" \o SubSeq(r.url, Len(base) + 2, Len(r.url)) = tool.name

C9_Witness ==
  /\ tool.name = "firecrawl_map"
  /\ \E r \in BagToSet(httpLog) : EndsWith(r.url, "/map")

\* C10: a non-empty custom description is the tool's description, exactly,
\* and never the built-in template; an empty one gives the operation's
\* built-in template.
C10_CustomDescriptionWins ==
  tool # NoTool =>
    /\ description # "" =>
         /\ tool.description = description
         /\ \A o \in Operations : tool.description # BuiltinDescription(o)
    /\ description = "" =>
         /\ tool.description = BuiltinDescription(toolType)
         /\ StartsWith(tool.description,
              CASE toolType = "scrape" -> "Scrape content from a single URL"
                [] toolType = "map" -> "Map a website"
                [] toolType = "search" -> "Search the web"
                [] toolType = "crawl" -> "Starts a crawl job")

C10_Witness ==
  /\ tool # NoTool
  /\ description = " "
  /\ tool.description = " "
  /\ toolType = "search"
====
